---- MODULE Spec2Model ----
(***************************************************************************)
(* HumanValidator (ultralytics/models/yolo/human/val.py): the hooks a host *)
(* validation loop calls on a validator of the human-attribute task.       *)
(*                                                                         *)
(* Tensors are modelled by their element values.  A score is an exact      *)
(* extended rational [n, d]: d > 0 is the number n/d in lowest terms,      *)
(* d = 0 is one of IEEE's specials (n > 0: +inf, n < 0: -inf, n = 0: NaN). *)
(***************************************************************************)
EXTENDS Integers, Sequences, FiniteSets, TLC

VARIABLES
    args,       \* self.args: half, save_txt
    metrics,    \* self.metrics: the HumanMetrics accumulator
    batch,      \* the batch dict the host loop hands to the hooks
    preds,      \* what postprocess returned: the predictions the hooks see
    files,      \* the files written below save_dir
    plotted,    \* the arguments of the plot_images call made for the batch
    pc,         \* where the host loop is
    raised,     \* the exception that left a hook, if any
    out,        \* the model output postprocess was handed, until the next hook
    run,        \* the number of validation runs started on this validator
    batch_i,    \* the host loop's batch index within the run
    sizes       \* history: the batch size of every update_metrics call

vars == <<args, metrics, batch, preds, files, plotted, pc, raised, out, run, batch_i, sizes>>

----------------------------------------------------------------------------
(* Bounds *)

MaxSamples == 2     \* samples handed to update_metrics over a validator's life
MaxRuns == 2        \* validation runs of one validator
MaxGt == 2          \* largest ground-truth value of a continuous attribute
MaxRows == 2        \* rows of a prediction tensor handed to plot_predictions
MaxLen == 2         \* length of a tuple or list the model outputs

----------------------------------------------------------------------------
(* Layout of the tensors *)

NumPredCols == 11
NumGenders == 2
NumEthnicities == 6

Attrs == {"weight", "height", "gender", "age", "ethnicity"}

\* Columns of the ground-truth attribute tensor (0-based, as in the source).
GtWeight == 0
GtHeight == 1
GtGender == 2
GtAge == 3
GtEthnicity == 4

\* t[:, c] of one row, c 0-based.
Col(row, c) == row[c + 1]

\* row[a:b], a and b 0-based, b exclusive.
Slice(row, a, b) == [j \in 1..(b - a) |-> row[a + j]]

Abs(a) == IF a >= 0 THEN a ELSE -a

\* torch.argmax over a row: the 0-based index of the first maximal value.
ArgMax(row) ==
    CHOOSE j \in 0..(Len(row) - 1) :
        /\ \A m \in 1..Len(row) : row[m] <= row[j + 1]
        /\ \A m \in 1..j : row[m] < row[j + 1]

----------------------------------------------------------------------------
(* Float arithmetic on exact extended rationals *)

RECURSIVE Gcd(_, _)
Gcd(a, b) == IF b = 0 THEN a ELSE Gcd(b, a % b)

Sign(a) == IF a > 0 THEN 1 ELSE IF a < 0 THEN -1 ELSE 0

NaN == [n |-> 0, d |-> 0]
Num(k) == [n |-> k, d |-> 1]
IsNaN(x) == x.d = 0 /\ x.n = 0
IsFinite(x) == x.d > 0

\* a / b of two integer-valued floats: x/0 is an infinity, 0/0 is NaN.
Div(a, b) ==
    IF b = 0 THEN [n |-> Sign(a), d |-> 0]
    ELSE LET g == Gcd(Abs(a), Abs(b))
         IN  [n |-> (Sign(b) * a) \div g, d |-> Abs(b) \div g]

\* 1 - x
OneMinus(x) ==
    IF x.d = 0 THEN [n |-> -x.n, d |-> 0]
    ELSE [n |-> x.d - x.n, d |-> x.d]

\* x < k for an integer k (false when x is NaN)
LessInt(x, k) == IF x.d = 0 THEN x.n < 0 ELSE x.n < k * x.d
GreaterInt(x, k) == IF x.d = 0 THEN x.n > 0 ELSE x.n > k * x.d

\* x <= y on finite values
Leq(x, y) == x.n * y.d <= y.n * x.d

\* Tensor.clip(lo, hi): NaN stays NaN.
Clip(x, lo, hi) ==
    IF IsNaN(x) THEN NaN
    ELSE IF LessInt(x, lo) THEN Num(lo)
    ELSE IF GreaterInt(x, hi) THEN Num(hi)
    ELSE x

\* (a == b).float()
EqFloat(a, b) == IF a = b THEN Num(1) ELSE Num(0)

InUnit(x) == IsFinite(x) /\ 0 <= x.n /\ x.n <= x.d

----------------------------------------------------------------------------
(* Tensors and dtype conversion *)

\* Significand widths of the float dtypes.
HalfBits == 11
FloatBits == 24

RECURSIVE ExpOver(_, _, _)
\* The least e >= 0 with v < 2^(p + e): the exponent of v's last kept bit.
ExpOver(v, p, e) == IF v < 2 ^ (p + e) THEN e ELSE ExpOver(v, p, e + 1)

\* An integer-valued element rounded to p significant bits, ties to even
\* (values stay below the dtype's overflow threshold).
RoundSig(v, p) ==
    LET a == Abs(v)
        q == 2 ^ ExpOver(a, p, 0)
        r == a % q
        lo == a - r
        up == IF 2 * r > q \/ (2 * r = q /\ (lo \div q) % 2 = 1) THEN lo + q ELSE lo
    IN  Sign(v) * up

Tensor(dtype, device, data) == [dtype |-> dtype, device |-> device, data |-> data]

\* Tensor.to(device)
To(t, device) == [t EXCEPT !.device = device]

\* Tensor.half() of a tensor of scalars per sample
Half(t) ==
    [t EXCEPT !.dtype = "float16",
              !.data = [i \in 1..Len(t.data) |-> RoundSig(t.data[i], HalfBits)]]

\* Tensor.float() of a tensor of scalars per sample
Float(t) ==
    [t EXCEPT !.dtype = "float32",
              !.data = [i \in 1..Len(t.data) |-> RoundSig(t.data[i], FloatBits)]]

\* Tensor.float() of a tensor of rows
FloatRows(t) ==
    [t EXCEPT !.dtype = "float32",
              !.data = [i \in 1..Len(t.data) |->
                          [j \in 1..Len(t.data[i]) |-> RoundSig(t.data[i][j], FloatBits)]]]

----------------------------------------------------------------------------
(* Python values: model outputs (tensors, tuples, lists) and shapes *)

PyTensor(rows) == [kind |-> "tensor", data |-> rows, items |-> <<>>]
PyTuple(items) == [kind |-> "tuple", data |-> <<>>, items |-> items]
PyList(items) == [kind |-> "list", data |-> <<>>, items |-> items]

\* isinstance(v, (tuple, list))
IsTupleOrList(v) == v.kind \in {"tuple", "list"}

PyInt(k) == [kind |-> "int", n |-> k, items |-> <<>>]
ShapeTuple(items) == [kind |-> "tuple", n |-> 0, items |-> items]

----------------------------------------------------------------------------
(* The inputs the host supplies: the dataloader's samples, the model's rows *)

GtVals == 0..MaxGt
PredVals == 0..(MaxGt + 1)
\* float32 pixels, in units of one common power of two
PixelVals == <<1, 2049>>

\* The image files of the dataset: path and original (height, width).
DatasetFiles ==
    << [im_file |-> [dir |-> "a", stem |-> "img0", suffix |-> "jpg"], ori_shape |-> <<2, 3>>],
       [im_file |-> [dir |-> "a", stem |-> "img1", suffix |-> "jpg"], ori_shape |-> <<4, 5>>],
       [im_file |-> [dir |-> "b", stem |-> "img0", suffix |-> "png"], ori_shape |-> <<6, 7>>] >>

\* Rows of k logits with at most one logit set.
OneHot(k, h) == [j \in 1..k |-> IF j = h THEN 1 ELSE 0]

\* Ground truth and model row of a sample: weight, height and age (ground truth
\* g0, g1, g3; predicted p0, p1, p2), gender (class g, logits a, b) and
\* ethnicity (class e, logits r), pixel v, file f.
Sample(g0, g1, g3, p0, p1, p2, g, a, b, e, r, v, f) ==
    [gt |-> <<g0, g1, g, g3, e>>, pred |-> <<p0, p1, p2, a, b>> \o r, pixel |-> v, file |-> f]

\* Ethnicity class and the logit set (0: none): right, wrong, and ties.
EthnicityCases ==
    << <<0, 1>>, <<0, 0>>, <<1, 0>>, <<1, 2>>, <<2, 3>>, <<3, 4>>, <<4, 5>>,
       <<5, 6>>, <<5, 1>>, <<0, 2>>, <<2, 4>>, <<3, 5>>, <<1, 3>>, <<4, 6>> >>

\* Sample k of the dataset with the row the model outputs for it. Weight takes
\* every pair of GtVals \X PredVals as k runs, height and age the same pairs
\* shifted; gender runs through class and logits, ethnicity through
\* EthnicityCases, the pixel through PixelVals and the file through DatasetFiles.
SampleAt(k) ==
    LET g == k \div (MaxGt + 2)
        p == k % (MaxGt + 2)
        c == k % (4 * NumGenders)
        eth == EthnicityCases[(k % Len(EthnicityCases)) + 1]
    IN  Sample(g, (g + 1) % (MaxGt + 1), (g + 2) % (MaxGt + 1),
               p, (p + 1) % (MaxGt + 2), (p + 2) % (MaxGt + 2),
               c \div 4, (c \div 2) % 2, c % 2,
               eth[1], OneHot(NumEthnicities, eth[2]),
               PixelVals[(k % Len(PixelVals)) + 1], (k % Len(DatasetFiles)) + 1)

Samples == {SampleAt(k) : k \in 0..((MaxGt + 1) * (MaxGt + 2) - 1)}

\* What the dataloader yields of a sample, without the model's row.
Loaded(s) == [gt |-> s.gt, pixel |-> s.pixel, file |-> s.file]
LoaderSamples == {Loaded(s) : s \in Samples}

\* The batch dict the dataloader's collate builds of samples ss (on the CPU).
Collate(ss) ==
    [img |-> Tensor("float32", "cpu", [i \in 1..Len(ss) |-> ss[i].pixel]),
     attributes |-> Tensor("float64", "cpu", [i \in 1..Len(ss) |-> ss[i].gt]),
     cls |-> [i \in 1..Len(ss) |-> 0],
     im_file |-> [i \in 1..Len(ss) |-> DatasetFiles[ss[i].file].im_file],
     ori_shape |-> ShapeTuple([i \in 1..Len(ss) |->
                      ShapeTuple(<<PyInt(DatasetFiles[ss[i].file].ori_shape[1]),
                                   PyInt(DatasetFiles[ss[i].file].ori_shape[2])>>)])]

NoBatch == Collate(<<>>)
NoPreds == PyTensor(<<>>)

\* The rows the model may output for sample i (1-based) of batch b.
RowsFor(b, i) ==
    {s.pred : s \in {x \in Samples :
                        /\ x.gt = b.attributes.data[i]
                        /\ DatasetFiles[x.file].im_file = b.im_file[i]}}

RECURSIVE RowSeqs(_, _)
RowSeqs(b, i) ==
    IF i > Len(b.attributes.data) THEN {<<>>}
    ELSE {<<r>> \o rest : r \in RowsFor(b, i), rest \in RowSeqs(b, i + 1)}

\* The prediction tensors the model may output for a batch: one row per sample.
PredTensors(b) == {PyTensor(rows) : rows \in RowSeqs(b, 1)}

\* The model's output: the prediction tensor, bare or first in a tuple.
ModelOutputs(b) ==
    PredTensors(b) \cup {PyTuple(<<t, PyTensor(<<>>)>>) : t \in PredTensors(b)}

----------------------------------------------------------------------------
(* Human (ultralytics.engine.results): the accessors of a prediction row,  *)
(* in the column layout plot_predictions uses.                             *)

Human_weight(row) == Col(row, 0)
Human_height(row) == Col(row, 1)
Human_age(row) == Col(row, 2)
Human_cls_gender(row) == ArgMax(Slice(row, 3, 5))
Human_cls_ethnicity(row) == ArgMax(Slice(row, 5, NumPredCols))

----------------------------------------------------------------------------
(* HumanMetrics (ultralytics.utils.metrics) *)

EmptyStats == [a \in Attrs |-> <<>>]

\* HumanMetrics(): a fresh accumulator.
HumanMetrics ==
    [attrs_stats |-> EmptyStats, speed |-> "unset", confusion_matrix |-> "unset",
     results_dict |-> [a \in Attrs |-> NaN]]

RECURSIVE Cat(_)
\* torch.cat of the per-batch arrays
Cat(arrays) == IF arrays = <<>> THEN <<>> ELSE Head(arrays) \o Cat(Tail(arrays))

Add(x, y) ==
    IF x.d = 0 \/ y.d = 0 THEN NaN ELSE Div(x.n * y.d + y.n * x.d, x.d * y.d)

RECURSIVE Sum(_)
Sum(xs) == IF xs = <<>> THEN Num(0) ELSE Add(Head(xs), Sum(Tail(xs)))

\* Tensor.mean(): NaN of an empty tensor and of one holding a NaN.
Mean(xs) ==
    LET t == Sum(xs)
    IN  IF xs = <<>> \/ t.d = 0 THEN NaN ELSE Div(t.n, t.d * Len(xs))

\* HumanMetrics.process(): the summary statistics of all the accumulator holds.
process(m) == [m EXCEPT !.results_dict = [a \in Attrs |-> Mean(Cat(m.attrs_stats[a]))]]

----------------------------------------------------------------------------
(* The hooks of HumanValidator *)

SelfDevice == "cuda:0"

\* The image converted to float32 whatever args.half says.
preprocess_AlwaysFloat(b, half) ==
    [b EXCEPT !.img = Float(To(b.img, SelfDevice)),
              !.attributes = FloatRows(To(b.attributes, SelfDevice))]

\* preprocess(batch): the batch dict with two of its entries replaced.
preprocess(b, half) ==
    LET moved == To(b.img, SelfDevice)
    IN  [b EXCEPT !.img = IF half THEN Half(moved) ELSE Float(moved),
                  !.attributes = FloatRows(To(b.attributes, SelfDevice))]

\* The last item in place of the first.
postprocess_Last(p) == IF IsTupleOrList(p) THEN p.items[Len(p.items)] ELSE p

\* postprocess(preds)
postprocess(p) == IF IsTupleOrList(p) THEN p.items[1] ELSE p

\* 1 - (pred - gt).abs() / gt
RelAcc(pred, gt) == OneMinus(Div(Abs(pred - gt), gt))

\* The score without its clip.
ContScore_NoClip(pred, gt) == RelAcc(pred, gt)

\* acc_w.clip(0, 1), acc_h.clip(0, 1), acc_a.clip(0, 1)
ContScore(pred, gt) == Clip(RelAcc(pred, gt), 0, 1)

\* An ordering in place of the equality.
CatScore_AtLeast(cls, gt) == IF cls >= gt THEN Num(1) ELSE Num(0)

\* (preds.cls_x == x).float()
CatScore(cls, gt) == EqFloat(cls, gt)

\* The five score arrays update_metrics computes of a batch.
BatchScores(rows, gts) ==
    [a \in Attrs |->
        [i \in 1..Len(rows) |->
            CASE a = "weight" -> ContScore(Human_weight(rows[i]), Col(gts[i], GtWeight))
              [] a = "height" -> ContScore(Human_height(rows[i]), Col(gts[i], GtHeight))
              [] a = "gender" -> CatScore(Human_cls_gender(rows[i]), Col(gts[i], GtGender))
              [] a = "age" -> ContScore(Human_age(rows[i]), Col(gts[i], GtAge))
              [] a = "ethnicity" ->
                    CatScore(Human_cls_ethnicity(rows[i]), Col(gts[i], GtEthnicity))]]

\* The list replaced by the latest array.
AppendStats_Overwrite(stats, scores) == [a \in Attrs |-> <<scores[a]>>]

\* self.metrics.attrs_stats[a].append(...), for the five attributes
AppendStats(stats, scores) == [a \in Attrs |-> Append(stats[a], scores[a])]

\* self.save_dir / "labels" / f'{Path(im_file).stem}.txt'
LabelFile(im_file) == [dir |-> "save_dir/labels", stem |-> im_file.stem, suffix |-> "txt"]

\* Results.save_txt(file): the text of the result is appended to the file.
save_txt(fs, file, result) ==
    IF \E f \in fs : f.path = file
    THEN {IF f.path = file THEN [f EXCEPT !.texts = Append(f.texts, result)] ELSE f : f \in fs}
    ELSE fs \cup {[path |-> file, texts |-> <<result>>]}

\* save_one_txt(predn, save_conf, shape, file): shape[0] and shape[1] are the
\* dimensions np.zeros is given, which must be integers.
save_one_txt(fs, predn, shape, file) ==
    IF Len(shape.items) < 2 THEN [files |-> fs, raised |-> "IndexError"]
    ELSE IF shape.items[1].kind # "int" \/ shape.items[2].kind # "int"
    THEN [files |-> fs, raised |-> "TypeError"]
    ELSE [files |-> save_txt(fs, file,
                        [human |-> predn, im |-> <<shape.items[1].n, shape.items[2].n>>]),
          raised |-> "none"]

\* The shape update_metrics hands to save_one_txt for prediction i (1-based).
SavedShape(b, i) == b.ori_shape

RECURSIVE SaveAll(_, _, _, _)
\* for i, pred in enumerate(preds): ... save_one_txt(...), until one raises
SaveAll(fs, rows, b, i) ==
    IF i > Len(rows) THEN [files |-> fs, raised |-> "none"]
    ELSE LET r == save_one_txt(fs, rows[i], SavedShape(b, i), LabelFile(b.im_file[i]))
         IN  IF r.raised # "none" THEN r ELSE SaveAll(r.files, rows, b, i + 1)

\* The columns read in the order of the ground truth's.
PlotAttributes_GtOrder(row) ==
    Slice(row, 0, 2) \o <<ArgMax(Slice(row, 2, 4))>> \o Slice(row, 4, 5)
        \o <<ArgMax(Slice(row, 5, NumPredCols))>>

\* torch.cat([preds[:, :2], pred_gender, preds[:, 2:3], pred_ethnicity], dim=1)
PlotAttributes(row) ==
    LET pred_gender == ArgMax(Slice(row, 3, 5))
        pred_ethnicity == ArgMax(Slice(row, 5, NumPredCols))
    IN  Slice(row, 0, 2) \o <<pred_gender>> \o Slice(row, 2, 3) \o <<pred_ethnicity>>

NoPlot ==
    [fname |-> [stem |-> "none", ni |-> 0], images |-> <<>>, batch_idx |-> <<>>,
     cls |-> <<>>, attributes |-> <<>>]

----------------------------------------------------------------------------
(* The validator and the host's validation loop *)

RECURSIVE Total(_)
Total(ns) == IF ns = <<>> THEN 0 ELSE Head(ns) + Total(Tail(ns))

RECURSIVE SampleSeqs(_)
\* The sequences of n dataloader samples.
SampleSeqs(n) ==
    IF n = 0 THEN {<<>>}
    ELSE {<<x>> \o rest : x \in LoaderSamples, rest \in SampleSeqs(n - 1)}

\* HumanValidator(args=...): __init__ sets the task and a fresh accumulator.
Init ==
    /\ args \in {[task |-> "human", half |-> h, save_txt |-> t] : h \in BOOLEAN, t \in BOOLEAN}
    /\ metrics = HumanMetrics
    /\ batch = NoBatch
    /\ preds = NoPreds
    /\ out = NoPreds
    /\ files = {}
    /\ plotted = NoPlot
    /\ pc = "idle"
    /\ raised = "none"
    /\ run = 0
    /\ batch_i = 0
    /\ sizes = <<>>

\* The host starts a validation run of the validator: validator().
StartRun ==
    /\ pc = "idle"
    /\ run < MaxRuns
    /\ run' = run + 1
    /\ batch_i' = 0
    /\ pc' = "loop"
    /\ UNCHANGED <<args, metrics, batch, preds, out, files, plotted, raised, sizes>>

\* The dataloader yields the next batch.
NextBatch ==
    /\ pc \in {"loop", "updated", "plotted_pred"}
    /\ \E n \in 1..(MaxSamples - Total(sizes)) : \E ss \in SampleSeqs(n) :
          batch' = Collate(ss)
    /\ batch_i' = IF pc = "loop" THEN 0 ELSE batch_i + 1
    /\ preds' = NoPreds
    /\ plotted' = NoPlot
    /\ pc' = "loaded"
    /\ UNCHANGED <<args, metrics, out, files, raised, run, sizes>>

\* batch = self.preprocess(batch)
Preprocess ==
    /\ pc = "loaded"
    /\ batch' = preprocess(batch, args.half)
    /\ pc' = "preprocessed"
    /\ UNCHANGED <<args, metrics, preds, out, files, plotted, raised, run, batch_i, sizes>>

\* preds = self.postprocess(model(batch["img"]))
Postprocess ==
    /\ pc = "preprocessed"
    /\ \E o \in ModelOutputs(batch) :
          /\ out' = o
          /\ preds' = postprocess(o)
    /\ pc' = "postprocessed"
    /\ UNCHANGED <<args, metrics, batch, files, plotted, raised, run, batch_i, sizes>>

\* self.update_metrics(preds, batch)
UpdateMetrics ==
    /\ pc = "postprocessed"
    /\ LET rows == preds.data
           scores == BatchScores(rows, batch.attributes.data)
           saved == IF args.save_txt THEN SaveAll(files, rows, batch, 1)
                    ELSE [files |-> files, raised |-> "none"]
       IN  /\ metrics' = [metrics EXCEPT !.attrs_stats = AppendStats(@, scores)]
           /\ files' = saved.files
           /\ raised' = saved.raised
           /\ pc' = IF saved.raised = "none" THEN "updated" ELSE "raised"
    /\ sizes' = Append(sizes, Len(batch.attributes.data))
    /\ out' = NoPreds
    /\ UNCHANGED <<args, batch, preds, plotted, run, batch_i>>

\* self.plot_val_samples(batch, batch_i)
PlotValSamples ==
    /\ pc = "updated"
    /\ plotted' = [fname |-> [stem |-> "val_batch_labels.jpg", ni |-> batch_i],
                   images |-> batch.img.data,
                   batch_idx |-> [i \in 1..Len(batch.img.data) |-> i - 1],
                   cls |-> batch.cls,
                   attributes |-> batch.attributes.data]
    /\ pc' = "plotted_val"
    /\ UNCHANGED <<args, metrics, batch, preds, out, files, raised, run, batch_i, sizes>>

\* self.plot_predictions(batch, preds, batch_i)
PlotPredictions ==
    /\ pc = "plotted_val"
    /\ plotted' = [fname |-> [stem |-> "val_batch_pred.jpg", ni |-> batch_i],
                   images |-> batch.img.data,
                   batch_idx |-> [i \in 1..Len(batch.img.data) |-> i - 1],
                   cls |-> [i \in 1..Len(preds.data) |-> ArgMax(preds.data[i])],
                   attributes |-> [i \in 1..Len(preds.data) |-> PlotAttributes(preds.data[i])]]
    /\ pc' = "plotted_pred"
    /\ UNCHANGED <<args, metrics, batch, preds, out, files, raised, run, batch_i, sizes>>

\* The loop is over: self.finalize_metrics()
FinalizeMetrics ==
    /\ pc \in {"updated", "plotted_pred"}
    /\ metrics' = [metrics EXCEPT !.speed = "speed", !.confusion_matrix = "none"]
    /\ batch' = NoBatch
    /\ preds' = NoPreds
    /\ plotted' = NoPlot
    /\ pc' = "finalized"
    /\ UNCHANGED <<args, out, files, raised, run, batch_i, sizes>>

\* stats = self.get_stats()
GetStats ==
    /\ pc = "finalized"
    /\ metrics' = process(metrics)
    /\ pc' = "stats"
    /\ UNCHANGED <<args, batch, preds, out, files, plotted, raised, run, batch_i, sizes>>

\* self.print_results(): one log line of the mean results; the run is over.
PrintResults ==
    /\ pc = "stats"
    /\ pc' = "idle"
    /\ UNCHANGED <<args, metrics, batch, preds, out, files, plotted, raised, run, batch_i, sizes>>

Next ==
    \/ StartRun
    \/ NextBatch
    \/ Preprocess
    \/ Postprocess
    \/ UpdateMetrics
    \/ PlotValSamples
    \/ PlotPredictions
    \/ FinalizeMetrics
    \/ GetStats
    \/ PrintResults

Spec == Init /\ [][Next]_vars

----------------------------------------------------------------------------
(* plot_predictions on its own: any prediction tensor of a plotted batch *)

\* The sets of columns (1-based) a prediction row has set: none, any one, or
\* two of the columns 3 to 5 (where the age and the gender logits lie), the
\* first ethnicity logit and the last one.
PlotCols ==
    {{}} \cup {{a} : a \in 1..NumPredCols}
         \cup {{a, b} : a \in 3..5, b \in 3..6 \cup {NumPredCols}}

PlotRows == {[j \in 1..NumPredCols |-> IF j \in cols THEN 1 ELSE 0] : cols \in PlotCols}

RECURSIVE PlotRowSeqs(_)
PlotRowSeqs(n) ==
    IF n = 0 THEN {<<>>}
    ELSE {<<r>> \o rest : r \in PlotRows, rest \in PlotRowSeqs(n - 1)}

PlainSample == [gt |-> <<1, 1, 0, 1, 0>>, pixel |-> 1, file |-> 1]

\* The host is about to call plot_predictions on a batch and its predictions.
InitPlot ==
    /\ args = [task |-> "human", half |-> FALSE, save_txt |-> FALSE]
    /\ metrics = HumanMetrics
    /\ \E n \in 1..MaxRows :
          /\ batch = preprocess(Collate([i \in 1..n |-> PlainSample]), FALSE)
          /\ preds \in {PyTensor(rows) : rows \in PlotRowSeqs(n)}
    /\ out = NoPreds
    /\ files = {}
    /\ plotted = NoPlot
    /\ pc = "plotted_val"
    /\ raised = "none"
    /\ run = 1
    /\ batch_i = 0
    /\ sizes = <<>>

NextPlot == PlotPredictions

SpecPlot == InitPlot /\ [][NextPlot]_vars

----------------------------------------------------------------------------
(* postprocess on its own: any model output, and postprocess applied again *)

Atoms == {PyTensor(<<<<t>>>>) : t \in 0..1}

RECURSIVE ItemSeqs(_, _)
\* The sequences of n items drawn from S.
ItemSeqs(S, n) ==
    IF n = 0 THEN {<<>>}
    ELSE {<<x>> \o rest : x \in S, rest \in ItemSeqs(S, n - 1)}

\* The sequences of 1 to MaxLen items drawn from S.
Items(S) == UNION {ItemSeqs(S, n) : n \in 1..MaxLen}

\* The non-empty tuples and lists of at most MaxLen items drawn from S.
Containers(S) ==
    {PyTuple(items) : items \in Items(S)} \cup {PyList(items) : items \in Items(S)}

\* Sequences of tensors with one item, at any place, replaced by a tuple or list.
NestedItems ==
    UNION {{[items EXCEPT ![k] = c] : k \in 1..Len(items), c \in Containers(Atoms)} :
              items \in Items(Atoms)}

\* Model outputs: a tensor, a tuple or list of tensors, or one of those holding
\* a tuple or list in turn.
NestedOutputs ==
    Atoms \cup Containers(Atoms)
          \cup {PyTuple(items) : items \in NestedItems}
          \cup {PyList(items) : items \in NestedItems}

InitPost ==
    /\ args = [task |-> "human", half |-> FALSE, save_txt |-> FALSE]
    /\ metrics = HumanMetrics
    /\ batch = NoBatch
    /\ preds = NoPreds
    /\ out = NoPreds
    /\ files = {}
    /\ plotted = NoPlot
    /\ pc = "preprocessed"
    /\ raised = "none"
    /\ run = 1
    /\ batch_i = 0
    /\ sizes = <<>>

\* preds = self.postprocess(output), for any output of a model
PostprocessOutput ==
    /\ pc = "preprocessed"
    /\ \E o \in NestedOutputs :
          /\ out' = o
          /\ preds' = postprocess(o)
    /\ pc' = "postprocessed"
    /\ UNCHANGED <<args, metrics, batch, files, plotted, raised, run, batch_i, sizes>>

\* self.postprocess(preds), applied to what postprocess returned
PostprocessAgain ==
    /\ pc = "postprocessed"
    /\ out' = preds
    /\ preds' = postprocess(preds)
    /\ pc' = "postprocessed_twice"
    /\ UNCHANGED <<args, metrics, batch, files, plotted, raised, run, batch_i, sizes>>

NextPost == PostprocessOutput \/ PostprocessAgain

SpecPost == InitPost /\ [][NextPost]_vars

----------------------------------------------------------------------------
(* Properties *)

Stats == metrics.attrs_stats

\* update_metrics has just run on the batch and the predictions of the state.
AfterUpdate == pc \in {"updated", "raised"}

\* The batch and predictions of the state are those of the last entry stored.
LastStored == pc \in {"updated", "raised", "plotted_val", "plotted_pred"}

LastScores(a) == Stats[a][Len(Stats[a])]
GtRows == batch.attributes.data
PredRows == preds.data

\* The continuous attributes: name, ground-truth column, predicted column.
Continuous == {<<"weight", 0, 0>>, <<"height", 1, 1>>, <<"age", 3, 2>>}

\* c (0-based) is the first position of row[lo..hi-1] (0-based, hi exclusive)
\* that holds the largest value of it.
FirstMax(row, lo, hi, c) ==
    /\ c \in 0..(hi - lo - 1)
    /\ \A j \in lo..(hi - 1) : row[j + 1] <= row[lo + c + 1]
    /\ \A j \in lo..(lo + c - 1) : row[j + 1] < row[lo + c + 1]

\* C1: every score stored in the accumulator, of every attribute, batch and
\* sample, is a number in [0, 1].
C1_ScoresInUnitRange ==
    \A a \in Attrs : \A k \in 1..Len(Stats[a]) : \A i \in 1..Len(Stats[a][k]) :
        InUnit(Stats[a][k][i])

\* C2: for a continuous attribute and a sample with ground truth gt > 0, the
\* score stored is (gt - |pred - gt|) / gt when |pred - gt| < gt and 0 when
\* |pred - gt| >= gt; it is 1 exactly when pred = gt; and of two samples of a
\* batch with the same gt the one with the larger error has no larger score.
C2_ContinuousScore ==
    LastStored =>
        \A c \in Continuous : \A i \in 1..Len(GtRows) :
            LET gt == Col(GtRows[i], c[2])
                err == Abs(Col(PredRows[i], c[3]) - gt)
                sc == LastScores(c[1])[i]
            IN  gt > 0 =>
                  /\ InUnit(sc)
                  /\ IF err >= gt THEN sc = Num(0) ELSE sc.n * gt = (gt - err) * sc.d
                  /\ (sc = Num(1)) <=> (err = 0)
                  /\ \A j \in 1..Len(GtRows) :
                        (Col(GtRows[j], c[2]) = gt /\ Abs(Col(PredRows[j], c[3]) - gt) >= err)
                            => Leq(LastScores(c[1])[j], sc)

C2_Witness ==
    /\ pc = "updated"
    /\ Len(GtRows) = 2
    /\ \E c \in Continuous :
          /\ Col(GtRows[1], c[2]) = 2 /\ Col(PredRows[1], c[3]) = 3
          /\ LastScores(c[1])[1] = [n |-> 1, d |-> 2]
          /\ Col(GtRows[2], c[2]) = 2 /\ Col(PredRows[2], c[3]) = 0
          /\ LastScores(c[1])[2] = Num(0)
    /\ \E c \in Continuous :
          Col(GtRows[1], c[2]) = 1 /\ Col(PredRows[1], c[3]) = 1 /\ LastScores(c[1])[1] = Num(1)

\* C3: for gender and ethnicity the score stored for a sample is 1 when the
\* predicted class (the first largest logit of the attribute) is the ground-truth
\* class and 0 otherwise, and no stored score of them is another value.
C3_CategoricalScore ==
    /\ \A a \in {"gender", "ethnicity"} : \A k \in 1..Len(Stats[a]) :
          \A i \in 1..Len(Stats[a][k]) : Stats[a][k][i] \in {Num(0), Num(1)}
    /\ LastStored =>
          \A i \in 1..Len(GtRows) :
              /\ (LastScores("gender")[i] = Num(1))
                    <=> FirstMax(PredRows[i], 3, 5, Col(GtRows[i], GtGender))
              /\ (LastScores("ethnicity")[i] = Num(1))
                    <=> FirstMax(PredRows[i], 5, NumPredCols, Col(GtRows[i], GtEthnicity))

C3_Witness ==
    /\ pc = "updated"
    /\ Len(GtRows) = 2
    /\ LastScores("gender") = <<Num(1), Num(0)>>
    /\ LastScores("ethnicity") = <<Num(0), Num(1)>>

\* The rows plot_predictions hands to plot_images, when the columns of a
\* prediction row are: weight, height, gLo..gHi-1 the gender logits, the age,
\* eLo.. the ethnicity logits.
DisplaysLayout(gLo, gHi, age, eLo) ==
    pc = "plotted_pred" =>
        /\ Len(plotted.attributes) = Len(PredRows)
        /\ \A i \in 1..Len(PredRows) :
              LET row == PredRows[i]
                  shown == plotted.attributes[i]
              IN  /\ Len(shown) = 5
                  /\ shown[1] = row[1]
                  /\ shown[2] = row[2]
                  /\ FirstMax(row, gLo, gHi, shown[3])
                  /\ shown[4] = row[age + 1]
                  /\ FirstMax(row, eLo, NumPredCols, shown[5])

\* C4, as stated: the columns are weight, height, two gender logits, age, six
\* ethnicity logits, and plot_predictions displays weight, height, the argmax of
\* the gender logits, the age, the argmax of the ethnicity logits.
C4_SpecLayout == DisplaysLayout(2, 4, 4, 5)

\* C4, amended: the columns are weight, height, age, two gender logits, six
\* ethnicity logits, and plot_predictions displays weight, height, the argmax of
\* the gender logits, the age, the argmax of the ethnicity logits.
C4_CodeLayout == DisplaysLayout(3, 5, 2, 5)

C4_Witness ==
    /\ pc = "plotted_pred"
    /\ Len(PredRows) = 2
    /\ PredRows[1][3] = 1 /\ PredRows[1][5] = 1
    /\ plotted.attributes[1] = <<0, 0, 1, 1, 0>>
    /\ PredRows[2][4] = 1 /\ PredRows[2][NumPredCols] = 1
    /\ plotted.attributes[2] = <<0, 0, 0, 0, NumEthnicities - 1>>

\* C5: when the first update_metrics of a second or later run of the validator
\* is about to be called, the accumulator holds no scores.
C5_ResetPerRun ==
    (run >= 2 /\ batch_i = 0 /\ pc = "postprocessed") => Stats = EmptyStats

\* C6: with save_txt off no file is written; with save_txt on, update_metrics
\* has written, for every prediction i of the batch, exactly one file
\* save_dir/labels/<stem of im_file[i]>.txt, which holds prediction i.
C6_OneFilePerPrediction ==
    /\ ~args.save_txt => files = {}
    /\ (args.save_txt /\ AfterUpdate) =>
          \A i \in 1..Len(PredRows) :
              /\ Cardinality({f \in files : f.path = LabelFile(batch.im_file[i])}) = 1
              /\ \E f \in files :
                    /\ f.path = LabelFile(batch.im_file[i])
                    /\ \E k \in 1..Len(f.texts) : f.texts[k].human = PredRows[i]

\* C9: with save_txt on, the shape update_metrics hands to save_one_txt for
\* sample i is ori_shape[i], and the canvas of the result written for sample i
\* has that height and width.
C9_ShapeOfSample ==
    /\ (args.save_txt /\ pc = "postprocessed") =>
          \A i \in 1..Len(batch.ori_shape.items) :
              SavedShape(batch, i) = batch.ori_shape.items[i]
    /\ (args.save_txt /\ AfterUpdate) =>
          \A i \in 1..Len(PredRows) :
              \E f \in files : \E k \in 1..Len(f.texts) :
                  /\ f.path = LabelFile(batch.im_file[i])
                  /\ f.texts[k].human = PredRows[i]
                  /\ f.texts[k].im = <<batch.ori_shape.items[i].items[1].n,
                                       batch.ori_shape.items[i].items[2].n>>

\* v is a value of a float dtype with p significand bits.
Representable(v, p) ==
    \E e \in 0..p : Abs(v) % (2 ^ e) = 0 /\ Abs(v) \div (2 ^ e) < 2 ^ p

\* y is x converted to a float dtype with p significand bits: a value of the
\* dtype, and no value of the dtype is nearer to x.
Converted(x, y, p) ==
    /\ Representable(y, p)
    /\ \A z \in (x - Abs(y - x) + 1)..(x + Abs(y - x) - 1) : ~Representable(z, p)

\* b2 is the batch preprocess makes of b1: img and attributes are on the device,
\* in the target dtype, of the same shape, with elements related by Elem, and
\* every other entry is as it was.
Preprocessed(b1, b2, Elem(_, _, _)) ==
    /\ DOMAIN b2 = DOMAIN b1
    /\ b2.cls = b1.cls /\ b2.im_file = b1.im_file /\ b2.ori_shape = b1.ori_shape
    /\ b2.img.device = SelfDevice /\ b2.attributes.device = SelfDevice
    /\ b2.img.dtype = (IF args.half THEN "float16" ELSE "float32")
    /\ b2.attributes.dtype = "float32"
    /\ Len(b2.img.data) = Len(b1.img.data)
    /\ \A i \in 1..Len(b1.img.data) :
          Elem(b1.img.data[i], b2.img.data[i], IF args.half THEN HalfBits ELSE FloatBits)
    /\ Len(b2.attributes.data) = Len(b1.attributes.data)
    /\ \A i \in 1..Len(b1.attributes.data) :
          /\ Len(b2.attributes.data[i]) = Len(b1.attributes.data[i])
          /\ \A j \in 1..Len(b1.attributes.data[i]) :
                Elem(b1.attributes.data[i][j], b2.attributes.data[i][j], FloatBits)

SameValue(x, y, p) == y = x

\* A step of update_metrics, plot_val_samples or plot_predictions.
ReadingStep ==
    \/ pc = "postprocessed" /\ pc' \in {"updated", "raised"}
    \/ pc = "updated" /\ pc' = "plotted_val"
    \/ pc = "plotted_val" /\ pc' = "plotted_pred"

PreprocessStep == pc = "loaded" /\ pc' = "preprocessed"

\* C7, as stated: preprocess replaces only img and attributes, whose elements
\* keep their values and shape (device and dtype converted), and update_metrics,
\* plot_val_samples and plot_predictions leave the batch unchanged.
C7_ValuesKept ==
    [][/\ PreprocessStep => Preprocessed(batch, batch', SameValue)
       /\ ReadingStep => batch' = batch]_vars

\* C7, amended: preprocess replaces only img and attributes, which keep their
\* shape while each element becomes the value of the target dtype (float16 for
\* img under args.half, else float32) nearest to it, so it keeps its value
\* exactly when the target dtype holds that value; update_metrics,
\* plot_val_samples and plot_predictions leave the batch unchanged.
C7_ValuesConverted ==
    [][/\ PreprocessStep => Preprocessed(batch, batch', Converted)
       /\ ReadingStep => batch' = batch]_vars

C7_Witness ==
    /\ pc = "plotted_pred"
    /\ args.half
    /\ batch.img.dtype = "float16"
    /\ batch.img.data = <<2048, 1>>
    /\ batch.attributes.dtype = "float32"

\* C8: the five lists hold one entry per update_metrics call made on the
\* validator, entry k holding one score per sample of the k-th batch; a call
\* appends exactly one entry to each list, and no step removes or rewrites an
\* entry.
C8_AppendOnly ==
    /\ [](\A a \in Attrs :
            /\ Len(Stats[a]) = Len(sizes)
            /\ \A k \in 1..Len(sizes) : Len(Stats[a][k]) = sizes[k])
    /\ [][\A a \in Attrs :
            /\ Len(Stats'[a]) =
                  Len(Stats[a]) + (IF pc = "postprocessed" /\ pc' \in {"updated", "raised"}
                                   THEN 1 ELSE 0)
            /\ \A k \in 1..Len(Stats[a]) : Stats'[a][k] = Stats[a][k]
            /\ (pc = "postprocessed" /\ pc' \in {"updated", "raised"}) =>
                  Len(Stats'[a][Len(Stats'[a])]) = Len(batch.attributes.data)]_vars

C8_Witness ==
    /\ pc = "updated"
    /\ run = 2
    /\ sizes = <<1, 1>>
    /\ \A a \in Attrs : Len(Stats[a]) = 2
    /\ Stats["weight"][1] # Stats["weight"][2]

\* C10: postprocess returns the first item of a tuple or list and any other
\* input itself; so applied to what it returned, when that is no tuple or list,
\* it returns the same again.
C10_FirstItemOrSelf ==
    pc \in {"postprocessed", "postprocessed_twice"} =>
        /\ IsTupleOrList(out) => preds = out.items[1]
        /\ ~IsTupleOrList(out) => preds = out

\* postprocess was applied to a tensor it had returned.
C10_AppliedTwice ==
    /\ pc = "postprocessed_twice"
    /\ out.kind = "tensor"
    /\ preds = out

C10_Witness ==
    /\ pc = "postprocessed"
    /\ out.kind = "tuple"
    /\ Len(out.items) = 2
    /\ out.items[2] # out.items[1]
    /\ preds = out.items[1]

====
